---- MODULE Spec2Model ----
(***************************************************************************)
(* smart-web-summarizer: the summarize route (fetch, extract, clamp,       *)
(* complete, recover the JSON object, assemble, persist) and the client's  *)
(* local history (load, upsert, remove, save).                             *)
(*                                                                         *)
(* A JavaScript string is a sequence of one-character strings.  A          *)
(* JavaScript value is a record [t, v]: t names its type and v holds the   *)
(* payload (a Nat, a string, a sequence of values, or for an object the    *)
(* sequence of its <<key, value>> pairs in insertion order).               *)
(***************************************************************************)
EXTENDS Integers, Sequences, FiniteSets, TLC

VARIABLES
    input,         \* parser harness: the completion text handed to extractFirstJsonObject
    outcome,       \* parser harness: what extractFirstJsonObject did with it
    apiKey,        \* route: whether process.env.MISTRAL_API_KEY is set
    bodyUrl,       \* route: body.url of the request
    pc,            \* route: the await the POST handler is suspended at
    target,        \* route: parsed.toString(), the address handed to the fetcher
    html,          \* route: the document cheerio loaded
    text,          \* route: what scrapeReadableText returned
    content,       \* route: choices[0].message.content of the completion
    summary,       \* route: what summarizeWithMistral returned
    response,      \* route: the NextResponse the handler returned
    calls,         \* route: the outbound requests issued so far, each with its outcome
    timer,         \* route: the timeout scrapeReadableText set with setTimeout
    aborted,       \* route: controller.signal.aborted
    storage,       \* client: the localStorage slot sws_history_v1
    localHistory,  \* client: the React state localHistory
    mounted,       \* client: whether the mount effect has run
    lastOp         \* client: the last state update applied to localHistory

vars == <<input, outcome, apiKey, bodyUrl, pc, target, html, text, content, summary, response,
          calls, timer, aborted, storage, localHistory, mounted, lastOp>>

(***************************************************************************)
(* JavaScript values                                                       *)
(***************************************************************************)
Undefined == [t |-> "undefined", v |-> 0]
Null == [t |-> "null", v |-> 0]
Bool(b) == [t |-> "boolean", v |-> IF b THEN 1 ELSE 0]
Num(n) == [t |-> "number", v |-> n]
Str(s) == [t |-> "string", v |-> s]
Arr(items) == [t |-> "array", v |-> items]
Obj(pairs) == [t |-> "object", v |-> pairs]

\* Array.isArray(x)
IsArray(x) == x.t = "array"

\* typeof x === "string"
IsString(x) == x.t = "string"

\* x?.[key]: undefined for null, undefined, a primitive, or an absent key
RECURSIVE Lookup(_, _, _)
Lookup(pairs, key, k) ==
    IF k > Len(pairs) THEN Undefined
    ELSE IF pairs[k][1] = key THEN pairs[k][2]
    ELSE Lookup(pairs, key, k + 1)

Get(x, key) == IF x.t = "object" THEN Lookup(x.v, key, 1) ELSE Undefined

\* obj[key] = val while parsing: a repeated key keeps its first position and
\* takes the last value
RECURSIVE SetKey(_, _, _, _)
SetKey(pairs, key, val, k) ==
    IF k > Len(pairs) THEN Append(pairs, <<key, val>>)
    ELSE IF pairs[k][1] = key THEN [pairs EXCEPT ![k] = <<key, val>>]
    ELSE SetKey(pairs, key, val, k + 1)

Digits == <<"0", "1", "2", "3", "4", "5", "6", "7", "8", "9">>
IsDigit(ch) == \E d \in 1..10 : Digits[d] = ch
DigitValue(ch) == (CHOOSE d \in 1..10 : Digits[d] = ch) - 1
IsWs(ch) == ch \in {" ", "\n", "\t", "\r"}

RECURSIVE NatToString(_)
NatToString(n) ==
    IF n < 10 THEN <<Digits[n + 1]>>
    ELSE Append(NatToString(n \div 10), Digits[(n % 10) + 1])

IntToString(n) == IF n < 0 THEN <<"-">> \o NatToString(-n) ELSE NatToString(n)

\* Array.prototype.slice(from, to) on a sequence, 0-based, to exclusive
Slice(s, from, to) ==
    LET hi == IF to > Len(s) THEN Len(s) ELSE to
    IN  IF from >= hi THEN <<>> ELSE SubSeq(s, from + 1, hi)

(***************************************************************************)
(* JSON.parse                                                              *)
(* Numbers are integers (no fraction, no exponent) and \u escapes are not  *)
(* read: no text of the model holds them outside a string literal.         *)
(***************************************************************************)
Fail == [ok |-> FALSE, v |-> Undefined, next |-> 0]
Got(val, nxt) == [ok |-> TRUE, v |-> val, next |-> nxt]

RECURSIVE SkipWs(_, _)
SkipWs(s, i) == IF i <= Len(s) /\ IsWs(s[i]) THEN SkipWs(s, i + 1) ELSE i

\* s holds word at position i
Holds(s, i, word) ==
    /\ i + Len(word) - 1 <= Len(s)
    /\ \A k \in 1..Len(word) : s[i + k - 1] = word[k]

Unescape(ch) ==
    CASE ch = "n" -> "\n"
      [] ch = "t" -> "\t"
      [] ch = "r" -> "\r"
      [] OTHER -> ch

\* the characters of a string literal, i just past the opening quote
RECURSIVE ParseChars(_, _, _)
ParseChars(s, i, acc) ==
    IF i > Len(s) THEN Fail
    ELSE IF s[i] = "\"" THEN Got(Str(acc), i + 1)
    ELSE IF s[i] = "\\" THEN
        IF i + 1 <= Len(s) /\ s[i + 1] \in {"\"", "\\", "/", "n", "t", "r"}
        THEN ParseChars(s, i + 2, Append(acc, Unescape(s[i + 1])))
        ELSE Fail
    ELSE IF s[i] \in {"\n", "\t", "\r"} THEN Fail
    ELSE ParseChars(s, i + 1, Append(acc, s[i]))

RECURSIVE ParseDigits(_, _, _)
ParseDigits(s, i, acc) ==
    IF i <= Len(s) /\ IsDigit(s[i])
    THEN ParseDigits(s, i + 1, acc * 10 + DigitValue(s[i]))
    ELSE Got(Num(acc), i)

\* -?(0|[1-9][0-9]*)
ParseNumber(s, i) ==
    LET neg == s[i] = "-"
        j == IF neg THEN i + 1 ELSE i
    IN  IF j > Len(s) \/ ~IsDigit(s[j]) THEN Fail
        ELSE LET r == IF s[j] = "0" THEN Got(Num(0), j + 1) ELSE ParseDigits(s, j, 0)
             IN  IF neg THEN Got(Num(0 - r.v.v), r.next) ELSE r

RECURSIVE ParseValue(_, _)
RECURSIVE ParseElements(_, _, _)
RECURSIVE ParseMembers(_, _, _)

\* the elements of an array after "[" or ",", i at the next element
ParseElements(s, i, acc) ==
    LET r == ParseValue(s, SkipWs(s, i))
        j == SkipWs(s, r.next)
    IN  IF ~r.ok \/ j > Len(s) THEN Fail
        ELSE IF s[j] = "," THEN ParseElements(s, j + 1, Append(acc, r.v))
        ELSE IF s[j] = "]" THEN Got(Arr(Append(acc, r.v)), j + 1)
        ELSE Fail

\* the members of an object after "{" or ",", i at the next key
ParseMembers(s, i, acc) ==
    LET k == SkipWs(s, i)
        key == IF k <= Len(s) /\ s[k] = "\"" THEN ParseChars(s, k + 1, <<>>) ELSE Fail
        c == SkipWs(s, key.next)
        r == IF key.ok /\ c <= Len(s) /\ s[c] = ":"
             THEN ParseValue(s, SkipWs(s, c + 1)) ELSE Fail
        j == SkipWs(s, r.next)
    IN  IF ~r.ok \/ j > Len(s) THEN Fail
        ELSE IF s[j] = "," THEN ParseMembers(s, j + 1, SetKey(acc, key.v.v, r.v, 1))
        ELSE IF s[j] = "}" THEN Got(Obj(SetKey(acc, key.v.v, r.v, 1)), j + 1)
        ELSE Fail

ParseValue(s, i) ==
    IF i > Len(s) THEN Fail
    ELSE IF s[i] = "{" THEN
        LET j == SkipWs(s, i + 1)
        IN  IF j <= Len(s) /\ s[j] = "}" THEN Got(Obj(<<>>), j + 1)
            ELSE ParseMembers(s, i + 1, <<>>)
    ELSE IF s[i] = "[" THEN
        LET j == SkipWs(s, i + 1)
        IN  IF j <= Len(s) /\ s[j] = "]" THEN Got(Arr(<<>>), j + 1)
            ELSE ParseElements(s, i + 1, <<>>)
    ELSE IF s[i] = "\"" THEN ParseChars(s, i + 1, <<>>)
    ELSE IF s[i] = "-" \/ IsDigit(s[i]) THEN ParseNumber(s, i)
    ELSE IF Holds(s, i, <<"n", "u", "l", "l">>) THEN Got(Null, i + 4)
    ELSE IF Holds(s, i, <<"t", "r", "u", "e">>) THEN Got(Bool(TRUE), i + 4)
    ELSE IF Holds(s, i, <<"f", "a", "l", "s", "e">>) THEN Got(Bool(FALSE), i + 5)
    ELSE Fail

\* JSON.parse(s): ok = FALSE stands for the SyntaxError it throws
JSONParse(s) ==
    LET r == ParseValue(s, SkipWs(s, 1))
    IN  IF r.ok /\ SkipWs(s, r.next) = Len(s) + 1
        THEN [ok |-> TRUE, v |-> r.v]
        ELSE [ok |-> FALSE, v |-> Undefined]

(***************************************************************************)
(* JSON.stringify and String()                                             *)
(***************************************************************************)
\* the quoted form of a string: QuoteJSONString
EscapeChar(ch) ==
    CASE ch = "\"" -> <<"\\", "\"">>
      [] ch = "\\" -> <<"\\", "\\">>
      [] ch = "\n" -> <<"\\", "n">>
      [] ch = "\t" -> <<"\\", "t">>
      [] ch = "\r" -> <<"\\", "r">>
      [] OTHER -> <<ch>>

RECURSIVE EscapeChars(_, _)
EscapeChars(s, i) ==
    IF i > Len(s) THEN <<>> ELSE EscapeChar(s[i]) \o EscapeChars(s, i + 1)

Quote(s) == <<"\"">> \o EscapeChars(s, 1) \o <<"\"">>

RECURSIVE JSONStringify(_)
RECURSIVE StringifyElements(_, _)
RECURSIVE StringifyMembers(_, _, _)

\* the elements of an array: undefined is written as null
StringifyElements(items, i) ==
    IF i > Len(items) THEN <<>>
    ELSE (IF i > 1 THEN <<",">> ELSE <<>>)
         \o (IF items[i].t = "undefined" THEN <<"n", "u", "l", "l">>
             ELSE JSONStringify(items[i]))
         \o StringifyElements(items, i + 1)

\* the members of an object: a member whose value is undefined is left out
StringifyMembers(pairs, i, first) ==
    IF i > Len(pairs) THEN <<>>
    ELSE IF pairs[i][2].t = "undefined" THEN StringifyMembers(pairs, i + 1, first)
    ELSE (IF first THEN <<>> ELSE <<",">>)
         \o Quote(pairs[i][1]) \o <<":">> \o JSONStringify(pairs[i][2])
         \o StringifyMembers(pairs, i + 1, FALSE)

\* JSON.stringify(x) for x other than undefined
JSONStringify(x) ==
    CASE x.t = "null" -> <<"n", "u", "l", "l">>
      [] x.t = "boolean" -> IF x.v = 1 THEN <<"t", "r", "u", "e">>
                            ELSE <<"f", "a", "l", "s", "e">>
      [] x.t = "number" -> IntToString(x.v)
      [] x.t = "string" -> Quote(x.v)
      [] x.t = "array" -> <<"[">> \o StringifyElements(x.v, 1) \o <<"]">>
      [] x.t = "object" -> <<"{">> \o StringifyMembers(x.v, 1, TRUE) \o <<"}">>

RECURSIVE ToJsString(_)
RECURSIVE JoinElements(_, _)

\* Array.prototype.join(","): null and undefined elements give the empty string
JoinElements(items, i) ==
    IF i > Len(items) THEN <<>>
    ELSE (IF i > 1 THEN <<",">> ELSE <<>>)
         \o (IF items[i].t \in {"null", "undefined"} THEN <<>> ELSE ToJsString(items[i]))
         \o JoinElements(items, i + 1)

\* String(x)
ToJsString(x) ==
    CASE x.t = "undefined" -> <<"u", "n", "d", "e", "f", "i", "n", "e", "d">>
      [] x.t = "null" -> <<"n", "u", "l", "l">>
      [] x.t = "boolean" -> IF x.v = 1 THEN <<"t", "r", "u", "e">>
                            ELSE <<"f", "a", "l", "s", "e">>
      [] x.t = "number" -> IntToString(x.v)
      [] x.t = "string" -> x.v
      [] x.t = "array" -> JoinElements(x.v, 1)
      [] x.t = "object" -> <<"[", "o", "b", "j", "e", "c", "t", " ",
                              "O", "b", "j", "e", "c", "t", "]">>

(***************************************************************************)
(* extractFirstJsonObject                                                  *)
(***************************************************************************)
Returned(val) == [kind |-> "return", v |-> val, message |-> "none"]
Thrown(msg) == [kind |-> "throw", v |-> Undefined, message |-> msg]

\* input.indexOf(ch), 0-based, -1 when ch does not occur
RECURSIVE IndexFrom(_, _, _)
IndexFrom(s, ch, i) ==
    IF i >= Len(s) THEN -1
    ELSE IF s[i + 1] = ch THEN i
    ELSE IndexFrom(s, ch, i + 1)

IndexOf(s, ch) == IndexFrom(s, ch, 0)

\* the mutant of ScanFallback that gives up at the first zero-depth closure
RECURSIVE ScanFirstClosureOnly(_, _, _, _)
ScanFirstClosureOnly(s, start, i, depth) ==
    IF i >= Len(s) THEN Thrown("Impossible d'extraire un objet JSON valide")
    ELSE LET ch == s[i + 1]
             d == IF ch = "{" THEN depth + 1
                  ELSE IF ch = "}" THEN depth - 1
                  ELSE depth
             candidate == JSONParse(Slice(s, start, i + 1))
         IN  IF d = 0 THEN
                 IF candidate.ok THEN Returned(candidate.v)
                 ELSE Thrown("Impossible d'extraire un objet JSON valide")
             ELSE ScanFirstClosureOnly(s, start, i + 1, d)

\* the for loop: i and depth are its variables, start never changes
RECURSIVE ScanFallback(_, _, _, _)
ScanFallback(s, start, i, depth) ==
    IF i >= Len(s) THEN Thrown("Impossible d'extraire un objet JSON valide")
    ELSE LET ch == s[i + 1]
             d == IF ch = "{" THEN depth + 1
                  ELSE IF ch = "}" THEN depth - 1
                  ELSE depth
             candidate == JSONParse(Slice(s, start, i + 1))
         IN  IF d = 0 /\ candidate.ok THEN Returned(candidate.v)
             ELSE ScanFallback(s, start, i + 1, d)

extractFirstJsonObject(s) ==
    LET direct == JSONParse(s)
        start == IndexOf(s, "{")
    IN  IF direct.ok THEN Returned(direct.v)
        ELSE IF start = -1 THEN Thrown("JSON introuvable dans la reponse du modele")
        ELSE ScanFallback(s, start, start, 0)

(***************************************************************************)
(* The parser on its own: every short text over Alphabet, and every text   *)
(* made of a leading part, an object and a trailing part.                  *)
(***************************************************************************)
MaxLen == 3

Alphabet == {"{", "}", "[", "]", "\"", ":", ",", "1", "a", " "}

RECURSIVE StringsOfLen(_)
StringsOfLen(n) ==
    IF n = 0 THEN {<<>>}
    ELSE {Append(s, ch) : s \in StringsOfLen(n - 1), ch \in Alphabet}

ShortTexts == UNION {StringsOfLen(n) : n \in 0..MaxLen}

ObjectTexts ==
    { <<"{", "}">>,
      <<"{", "\"", "a", "\"", ":", "1", "}">>,
      <<"{", "\"", "a", "\"", ":", "\"", "}", "\"", "}">>,
      <<"{", "\"", "a", "\"", ":", "\"", "{", "\"", "}">>,
      <<"{", "\"", "a", "\"", ":", "\"", "}", "{", "\"", "}">>,
      <<"{", "\"", "a", "\"", ":", "{", "\"", "a", "\"", ":", "1", "}", "}">>,
      <<"{", "\"", "t", "i", "t", "l", "e", "\"", ":", "\"", "A", "\"", ",",
        "\"", "s", "u", "m", "m", "a", "r", "y", "_", "p", "o", "i", "n", "t", "s", "\"",
        ":", "[", "\"", "x", "\"", ",", "\"", "y", "\"", "]", "}">> }

Leading ==
    { <<>>, <<" ">>, <<"a">>, <<"}">>, <<"{">>, <<"[">>, <<"{", "a", "}", " ">>,
      <<"S", "u", "r", "e", "!", " ">> }

Trailing ==
    { <<>>, <<" ">>, <<"a">>, <<"}">>, <<"{">>, <<"]">>,
      <<" ", "H", "o", "p", "e", " ", "t", "h", "a", "t", " ", "h", "e", "l", "p", "s", "!">> }

FramedTexts == {p1 \o o \o p2 : p1 \in Leading, o \in ObjectTexts, p2 \in Trailing}

Texts == ShortTexts \cup FramedTexts

Pending == [kind |-> "pending", v |-> Undefined, message |-> "none"]
NoText == <<"-">>

ParserIdle ==
    /\ input = NoText
    /\ outcome = Pending

NoSummary == [title |-> <<>>, summary_points |-> <<>>]
NoResponse == [status |-> 0, body |-> Undefined]

RouteIdle ==
    /\ apiKey = FALSE
    /\ bodyUrl = Undefined
    /\ pc = "idle"
    /\ target = <<>>
    /\ html = <<>>
    /\ text = <<>>
    /\ content = Undefined
    /\ summary = NoSummary
    /\ response = NoResponse
    /\ calls = <<>>
    /\ timer = "unset"
    /\ aborted = FALSE

NoOp == [op |-> "none", prev |-> <<>>, arg |-> Undefined]

ClientIdle ==
    /\ storage = Null
    /\ localHistory = <<>>
    /\ mounted = FALSE
    /\ lastOp = NoOp

routeVars == <<apiKey, bodyUrl, pc, target, html, text, content, summary, response,
               calls, timer, aborted>>
clientVars == <<storage, localHistory, mounted, lastOp>>
parserVars == <<input, outcome>>

InitParser ==
    /\ input \in Texts
    /\ outcome = Pending
    /\ RouteIdle
    /\ ClientIdle

\* const parsed = extractFirstJsonObject(content)
Extract ==
    /\ outcome.kind = "pending"
    /\ outcome' = extractFirstJsonObject(input)
    /\ UNCHANGED <<input, routeVars, clientVars>>

NextParser == Extract

SpecParser == InitParser /\ [][NextParser]_vars

(***************************************************************************)
(* Claims about extractFirstJsonObject                                     *)
(***************************************************************************)
NotFound == "JSON introuvable dans la reponse du modele"

\* C2: a completion text that holds no "{" always ends in the structured-output-
\* not-found error and never in a returned value.  The direct JSON.parse of the
\* whole text comes first in the code, so a text such as 1 or [1] is returned.
C2_NoBraceAlwaysFails ==
    (outcome.kind # "pending" /\ IndexOf(input, "{") = -1)
        => (outcome.kind = "throw" /\ outcome.message = NotFound)

\* the number of "{" less the number of "}" in s, string literals included
RECURSIVE BraceDepth(_, _)
BraceDepth(s, i) ==
    IF i > Len(s) THEN 0
    ELSE (IF s[i] = "{" THEN 1 ELSE IF s[i] = "}" THEN -1 ELSE 0) + BraceDepth(s, i + 1)

\* input[a..b] is the text of one syntactically valid object
ObjectAt(s, a, b) ==
    /\ a < b
    /\ s[a] = "{"
    /\ s[b] = "}"
    /\ JSONParse(SubSeq(s, a, b)).ok

Before(s, a) == SubSeq(s, 1, a - 1)
After(s, b) == SubSeq(s, b + 1, Len(s))

\* prose in the plain sense: no brace and no bracket
PlainProse(p) == \A k \in 1..Len(p) : p[k] \notin {"{", "}", "[", "]"}
AllWs(p) == \A k \in 1..Len(p) : IsWs(p[k])

\* C3 as stated: whenever the text is plain prose, one valid object, plain prose,
\* the call returns exactly that object.
C3_FramedObjectReturned ==
    outcome.kind # "pending" =>
        \A a, b \in 1..Len(input) :
            (/\ ObjectAt(input, a, b)
             /\ PlainProse(Before(input, a))
             /\ PlainProse(After(input, b)))
                => outcome = Returned(JSONParse(SubSeq(input, a, b)).v)

\* C3 amended: the leading part holds no "{", the object holds as many "{" as
\* "}" (those inside its string literals counted), and the whole text is not
\* itself valid JSON unless what surrounds the object is whitespace; then the
\* call returns exactly that object.
C3_BalancedFramedObjectReturned ==
    outcome.kind # "pending" =>
        \A a, b \in 1..Len(input) :
            (/\ ObjectAt(input, a, b)
             /\ IndexOf(Before(input, a), "{") = -1
             /\ BraceDepth(SubSeq(input, a, b), 1) = 0
             /\ \/ ~JSONParse(input).ok
                \/ AllWs(Before(input, a)) /\ AllWs(After(input, b)))
                => outcome = Returned(JSONParse(SubSeq(input, a, b)).v)

\* C3 witness: prose on both sides, the direct parse failed, a zero-depth closure
\* inside the object failed to parse, and the object was returned all the same
C3_Witness ==
    /\ outcome.kind = "return"
    /\ ~JSONParse(input).ok
    /\ \E a, b \in 1..Len(input) :
        /\ ObjectAt(input, a, b)
        /\ a > 1
        /\ b < Len(input)
        /\ PlainProse(Before(input, a))
        /\ PlainProse(After(input, b))
        /\ BraceDepth(SubSeq(input, a, b), 1) = 0
        /\ \E k \in (a + 1)..(b - 1) : BraceDepth(SubSeq(input, a, k), 1) = 0
        /\ outcome = Returned(JSONParse(SubSeq(input, a, b)).v)

(***************************************************************************)
(* Page text.  The text of a page can be longer than the clamp's 12000     *)
(* characters, so page text is held run-length encoded: a sequence of runs *)
(* [c, n], n >= 1 copies of the character c, adjacent runs differing in c. *)
(***************************************************************************)
Run(ch, count) == [c |-> ch, n |-> count]

RECURSIVE RLen(_)
RLen(t) == IF t = <<>> THEN 0 ELSE Head(t).n + RLen(Tail(t))

\* a + b
RConcat(a, b) ==
    IF a = <<>> THEN b
    ELSE IF b = <<>> THEN a
    ELSE IF a[Len(a)].c = b[1].c
         THEN SubSeq(a, 1, Len(a) - 1) \o <<Run(b[1].c, a[Len(a)].n + b[1].n)>> \o Tail(b)
         ELSE a \o b

\* parts.join(sep)
RECURSIVE Join(_, _)
Join(parts, sep) ==
    IF parts = <<>> THEN <<>>
    ELSE IF Len(parts) = 1 THEN parts[1]
    ELSE RConcat(RConcat(parts[1], sep), Join(Tail(parts), sep))

\* text.slice(0, count)
RECURSIVE RTake(_, _)
RTake(t, count) ==
    IF t = <<>> \/ count <= 0 THEN <<>>
    ELSE IF Head(t).n >= count THEN <<Run(Head(t).c, count)>>
    ELSE <<Head(t)>> \o RTake(Tail(t), count - Head(t).n)

\* text.replace(/\s+/g, " ")
RECURSIVE CollapseWs(_, _)
CollapseWs(t, acc) ==
    IF t = <<>> THEN acc
    ELSE IF IsWs(Head(t).c) THEN
        IF acc # <<>> /\ acc[Len(acc)].c = " " THEN CollapseWs(Tail(t), acc)
        ELSE CollapseWs(Tail(t), Append(acc, Run(" ", 1)))
    ELSE CollapseWs(Tail(t), RConcat(acc, <<Head(t)>>))

\* text.trim()
RECURSIVE TrimStart(_)
TrimStart(t) == IF t # <<>> /\ IsWs(Head(t).c) THEN TrimStart(Tail(t)) ELSE t

RECURSIVE TrimEnd(_)
TrimEnd(t) ==
    IF t # <<>> /\ IsWs(t[Len(t)].c) THEN TrimEnd(SubSeq(t, 1, Len(t) - 1)) ELSE t

Trim(t) == TrimEnd(TrimStart(t))

normalizeWhitespace(t) == Trim(CollapseWs(t, <<>>))

\* the mutant of clamp that keeps one character too few
clampOffByOne(t, maxChars) ==
    IF RLen(t) <= maxChars THEN t ELSE RTake(t, maxChars - 1)

clamp(t, maxChars) ==
    IF RLen(t) <= maxChars THEN t ELSE RTake(t, maxChars)

MaxChars == 12000

(***************************************************************************)
(* The document: the elements cheerio selects from, in document order,     *)
(* each with its tag, the region it lies in and its text.                  *)
(***************************************************************************)
Element(tg, rg, tx) == [tag |-> tg, region |-> rg, text |-> tx]

\* $(selector).toArray().map((el) => $(el).text())
RECURSIVE SelectTexts(_, _, _)
SelectTexts(doc, regions, tags) ==
    IF doc = <<>> THEN <<>>
    ELSE (IF Head(doc).region \in regions /\ Head(doc).tag \in tags
          THEN <<Head(doc).text>> ELSE <<>>)
         \o SelectTexts(Tail(doc), regions, tags)

Separator == <<Run(" ", 1), Run("\n", 1)>>
AllRegions == {"article", "main", "none"}

articleText(doc) == Join(SelectTexts(doc, {"article"}, {"p", "h1", "h2", "li"}), Separator)
mainText(doc) == Join(SelectTexts(doc, {"main"}, {"p", "li"}), Separator)
paraText(doc) == Join(SelectTexts(doc, AllRegions, {"p"}), Separator)

\* articleText || mainText || paraText: the first non-empty string
rawText(doc) ==
    IF articleText(doc) # <<>> THEN articleText(doc)
    ELSE IF mainText(doc) # <<>> THEN mainText(doc)
    ELSE paraText(doc)

\* what scrapeReadableText returns for a document
readableText(doc) == clamp(normalizeWhitespace(rawText(doc)), MaxChars)

(***************************************************************************)
(* new URL(inputUrl): the scheme, and for http, https and ftp the host.    *)
(***************************************************************************)
Letters ==
    {"a", "b", "c", "d", "e", "f", "g", "h", "i", "j", "k", "l", "m",
     "n", "o", "p", "q", "r", "s", "t", "u", "v", "w", "x", "y", "z"}

\* inputUrl.trim() on a string of characters
RECURSIVE TrimChars(_)
TrimChars(s) ==
    IF s # <<>> /\ IsWs(Head(s)) THEN TrimChars(Tail(s))
    ELSE IF s # <<>> /\ IsWs(s[Len(s)]) THEN TrimChars(SubSeq(s, 1, Len(s) - 1))
    ELSE s

SpecialSchemes ==
    { <<"h", "t", "t", "p">>, <<"h", "t", "t", "p", "s">>, <<"f", "t", "p">> }

RECURSIVE SkipSlashes(_)
SkipSlashes(s) == IF s # <<>> /\ Head(s) = "/" THEN SkipSlashes(Tail(s)) ELSE s

BadURL == [ok |-> FALSE, protocol |-> <<>>, href |-> <<>>]

\* ok = FALSE stands for the TypeError the constructor throws
ParseURL(s) ==
    LET colon == IndexOf(s, ":")
        scheme == Slice(s, 0, colon)
        rest == SkipSlashes(Slice(s, colon + 1, Len(s)))
        slash == IndexOf(rest, "/")
        host == IF slash = -1 THEN rest ELSE Slice(rest, 0, slash)
        path == IF slash = -1 THEN <<"/">> ELSE Slice(rest, slash, Len(rest))
    IN  IF colon < 1 \/ \E k \in 1..colon : s[k] \notin Letters THEN BadURL
        ELSE IF scheme \notin SpecialSchemes
             THEN [ok |-> TRUE, protocol |-> scheme \o <<":">>, href |-> s]
        ELSE IF host = <<>> THEN BadURL
        ELSE [ok |-> TRUE, protocol |-> scheme \o <<":">>,
              href |-> scheme \o <<":", "/", "/">> \o host \o path]

\* /^https?:$/.test(parsed.protocol)
IsHttp(protocol) ==
    protocol \in { <<"h", "t", "t", "p", ":">>, <<"h", "t", "t", "p", "s", ":">> }

(***************************************************************************)
(* summarizeWithMistral after the completion arrived, and the row the      *)
(* handler builds its response from.                                       *)
(***************************************************************************)
TitleKey == <<"t", "i", "t", "l", "e">>
PointsKey == <<"s", "u", "m", "m", "a", "r", "y", "_", "p", "o", "i", "n", "t", "s">>

\* the placeholder title, written without its accents
DefaultTitle == <<"R", "e", "s", "u", "m", "e">>

\* items.map((p) => String(p))
RECURSIVE MapString(_)
MapString(items) ==
    IF items = <<>> THEN <<>> ELSE <<ToJsString(Head(items))>> \o MapString(Tail(items))

\* items.map((s) => s) as JavaScript string values
RECURSIVE MapStr(_)
MapStr(items) == IF items = <<>> THEN <<>> ELSE <<Str(Head(items))>> \o MapStr(Tail(items))

\* typeof parsed?.title === "string" ? parsed.title : "Résumé"
assembleTitle(parsed) ==
    IF IsString(Get(parsed, TitleKey)) THEN Get(parsed, TitleKey).v ELSE DefaultTitle

\* the mutant of summaryPoints whose slice starts one entry late
summaryPointsFromSecond(pointsRaw) ==
    IF IsArray(pointsRaw) THEN Slice(MapString(pointsRaw.v), 1, 3) ELSE <<>>

\* Array.isArray(pointsRaw) ? pointsRaw.map((p) => String(p)).slice(0, 3) : []
summaryPoints(pointsRaw) ==
    IF IsArray(pointsRaw) THEN Slice(MapString(pointsRaw.v), 0, 3) ELSE <<>>

assemble(parsed) ==
    [title |-> assembleTitle(parsed),
     summary_points |-> summaryPoints(Get(parsed, PointsKey))]

\* summary: JSON.stringify({ summary_points })
payloadSummary(summary_points) ==
    JSONStringify(Obj(<< <<PointsKey, Arr(MapStr(summary_points))>> >>))

\* the try block around JSON.parse(inserted.summary ?? "{}")
responseBullets(rowSummary) ==
    LET summaryObj == JSONParse(rowSummary)
        points == Get(summaryObj.v, PointsKey)
    IN  IF summaryObj.ok /\ IsArray(points)
        THEN Slice(MapString(points.v), 0, 3)
        ELSE <<>>

(***************************************************************************)
(* The inputs of the route                                                 *)
(***************************************************************************)
\* body.url
UrlValues ==
    { Undefined, Null, Num(1), Str(<<>>), Str(<<" ", " ">>),
      Str(<<"h", ".", "c", "o", "m">>),
      Str(<<"f", "t", "p", ":", "/", "/", "h">>),
      Str(<<"h", "t", "t", "p", "s", ":", "/", "/">>),
      Str(<<"h", "t", "t", "p", ":", "/", "/", "h">>),
      Str(<<" ", "h", "t", "t", "p", "s", ":", "/", "/", "h", "/", "a", " ">>) }

\* res.status of the page and of the completion service
Statuses == {200, 204, 404, 500}

MaxDocLen == 2

Empty == <<>>
Word == <<Run("a", 1)>>
Blank == <<Run(" ", 1)>>

\* every shape of a short document: which elements lie where, with or without text
ShapeElements ==
    {Element(tg, rg, tx) : tg \in {"p", "h1", "li"}, rg \in AllRegions, tx \in {Empty, Word}}

RECURSIVE DocsOfLen(_, _)
DocsOfLen(elements, n) ==
    IF n = 0 THEN {<<>>}
    ELSE {Append(d, e) : d \in DocsOfLen(elements, n - 1), e \in elements}

ShapeDocs == UNION {DocsOfLen(ShapeElements, n) : n \in 0..MaxDocLen}

\* texts around the clamp's limit, and whitespace-only texts
LongTexts ==
    { Blank,
      <<Run("a", 1), Run(" ", 2), Run("\n", 1), Run("b", 1)>>,
      <<Run("a", MaxChars)>>,
      <<Run("a", MaxChars + 1)>>,
      <<Run("a", MaxChars \div 2)>>,
      <<Run(" ", MaxChars + 1)>>,
      <<Run(" ", 5), Run("a", MaxChars - 2)>>,
      <<Run("a", MaxChars - 1), Run(" ", 3), Run("b", 2)>>,
      <<Run("a", MaxChars \div 2), Run(" ", 3), Run("b", MaxChars \div 2)>> }

LongElements ==
    {Element(tg, rg, tx) : tg \in {"p", "h2"}, rg \in {"article", "none"}, tx \in LongTexts}

PairElements ==
    {Element("p", rg, tx) : rg \in {"article", "none"},
                            tx \in {Blank, Word, <<Run("a", MaxChars \div 2)>>}}

LongDocs == DocsOfLen(LongElements, 1) \cup DocsOfLen(PairElements, 2)

Docs == ShapeDocs \cup LongDocs

MaxPoints == 4

RECURSIVE SeqsOfLen(_, _)
SeqsOfLen(values, n) ==
    IF n = 0 THEN {<<>>}
    ELSE {Append(q, x) : q \in SeqsOfLen(values, n - 1), x \in values}

\* what the model may have put under "title" and "summary_points"
TitleValues == {Undefined, Null, Num(7), Str(<<>>), Str(<<"T">>), Arr(<<Str(<<"T">>)>>)}

PointsValues ==
    {Undefined, Null, Num(7), Str(<<"x">>), Obj(<<>>)}
    \cup {Arr(q) : q \in UNION {SeqsOfLen({Str(<<"x">>), Num(7)}, n) : n \in 0..MaxPoints}}
    \cup { Arr(<<Null, Bool(TRUE)>>),
           Arr(<<Arr(<<Num(1), Null, Num(2)>>), Obj(<<>>)>>),
           Arr(<<Str(<<"a", "\"", "b", "\\">>), Str(<<"c", "\n">>), Str(<<>>), Str(<<"d">>)>>) }

\* an object with the two fields, a field being left out when its value is undefined
ModelObject(title, points) ==
    Obj((IF title.t = "undefined" THEN <<>> ELSE << <<TitleKey, title>> >>)
        \o (IF points.t = "undefined" THEN <<>> ELSE << <<PointsKey, points>> >>))

ObjectContents == {JSONStringify(ModelObject(t, p)) : t \in TitleValues, p \in PointsValues}

\* choices[0].message.content: absent, empty, prose only, JSON that is no object,
\* an object, or an object inside prose
Contents ==
    {Undefined, Str(<<>>), Str(<<"a">>), Str(<<"1">>), Str(<<"n", "u", "l", "l">>),
     Str(<<"[", "1", "]">>), Str(<<"\"", "a", "\"">>)}
    \cup {Str(c) : c \in ObjectContents}
    \cup {Str(p1 \o o \o p2) : p1 \in {<<"S", "u", "r", "e", "!", " ">>},
                               o \in ObjectTexts, p2 \in {<<>>, <<" ", "a">>}}

RowIds == {1, 2}

(***************************************************************************)
(* POST: one invocation of the route, one action per await                 *)
(***************************************************************************)
Respond(status, body) == [status |-> status, body |-> body]
ErrorBody(message) == [error |-> message]

\* an outbound request and how it ended: "pending", "ok" or "failed"
Call(to, result) == [to |-> to, result |-> result]
Settle(cs, result) == [cs EXCEPT ![Len(cs)].result = result]

\* the mutant of timerAfterTry that clears the timer on the return path alone
timerClearedOnReturn(t, exit) == IF exit = "return" THEN "cleared" ELSE t

\* finally { clearTimeout(timeout); }: the timer once the try block of
\* scrapeReadableText is left, by return or by throw
timerAfterTry(t, exit) == "cleared"

InitRoute ==
    /\ apiKey \in BOOLEAN
    /\ bodyUrl \in UrlValues
    /\ pc = "start"
    /\ target = <<>>
    /\ html = <<>>
    /\ text = <<>>
    /\ content = Undefined
    /\ summary = NoSummary
    /\ response = NoResponse
    /\ calls = <<>>
    /\ timer = "unset"
    /\ aborted = FALSE
    /\ ParserIdle
    /\ ClientIdle

\* the handler from req.json() to the fetch scrapeReadableText issues: the checks
\* of body.url, new AbortController(), setTimeout
Validate ==
    /\ pc = "start"
    /\ LET inputUrl == IF bodyUrl.t = "string" THEN TrimChars(bodyUrl.v) ELSE <<>>
           parsed == ParseURL(inputUrl)
       IN  IF bodyUrl.t \notin {"undefined", "null", "string"} THEN
               \* url.trim is not a function: the TypeError reaches the outer catch
               /\ response' = Respond(500, ErrorBody("TypeError"))
               /\ pc' = "done"
               /\ UNCHANGED <<target, calls, timer>>
           ELSE IF inputUrl = <<>> THEN
               /\ response' = Respond(400, ErrorBody("Parametre url manquant"))
               /\ pc' = "done"
               /\ UNCHANGED <<target, calls, timer>>
           ELSE IF ~parsed.ok \/ ~IsHttp(parsed.protocol) THEN
               /\ response' = Respond(400, ErrorBody("URL invalide"))
               /\ pc' = "done"
               /\ UNCHANGED <<target, calls, timer>>
           ELSE
               /\ target' = parsed.href
               /\ timer' = "armed"
               /\ calls' = <<Call("page", "pending")>>
               /\ pc' = "fetchPage"
               /\ UNCHANGED response
    /\ UNCHANGED <<apiKey, bodyUrl, html, text, content, summary, aborted,
                   parserVars, clientVars>>

\* () => controller.abort(): the timeout elapses while the handler is suspended
TimerFires ==
    /\ timer = "armed"
    /\ timer' = "fired"
    /\ aborted' = TRUE
    /\ UNCHANGED <<apiKey, bodyUrl, pc, target, html, text, content, summary, response,
                   calls, parserVars, clientVars>>

\* await fetch(targetUrl, ...): it rejects (abort, network failure) or resolves
FetchPage ==
    /\ pc = "fetchPage"
    /\ IF aborted THEN
           /\ response' = Respond(500, ErrorBody("This operation was aborted"))
           /\ calls' = Settle(calls, "failed")
           /\ timer' = timerAfterTry(timer, "throw")
           /\ pc' = "done"
       ELSE
           \/ /\ response' = Respond(500, ErrorBody("fetch failed"))
              /\ calls' = Settle(calls, "failed")
              /\ timer' = timerAfterTry(timer, "throw")
              /\ pc' = "done"
           \/ \E status \in Statuses :
                IF status \in 200..299
                THEN /\ pc' = "readBody"
                     /\ UNCHANGED <<response, calls, timer>>
                ELSE /\ response' = Respond(500, ErrorBody("Echec du chargement de la page"))
                     /\ calls' = Settle(calls, "failed")
                     /\ timer' = timerAfterTry(timer, "throw")
                     /\ pc' = "done"
    /\ UNCHANGED <<apiKey, bodyUrl, target, html, text, content, summary, aborted,
                   parserVars, clientVars>>

\* await res.text(), the rest of scrapeReadableText, and the handler up to the
\* fetch summarizeWithMistral issues
ReadBody ==
    /\ pc = "readBody"
    /\ IF aborted THEN
           /\ response' = Respond(500, ErrorBody("This operation was aborted"))
           /\ calls' = Settle(calls, "failed")
           /\ timer' = timerAfterTry(timer, "throw")
           /\ pc' = "done"
           /\ UNCHANGED <<html, text>>
       ELSE
           \/ /\ response' = Respond(500, ErrorBody("body failed"))
              /\ calls' = Settle(calls, "failed")
              /\ timer' = timerAfterTry(timer, "throw")
              /\ pc' = "done"
              /\ UNCHANGED <<html, text>>
           \/ \E doc \in Docs :
                /\ html' = doc
                /\ text' = readableText(doc)
                /\ timer' = timerAfterTry(timer, "return")
                /\ IF text' = <<>> THEN
                       /\ response' = Respond(422,
                              ErrorBody("Aucun contenu exploitable sur la page"))
                       /\ calls' = Settle(calls, "ok")
                       /\ pc' = "done"
                   ELSE IF ~apiKey THEN
                       /\ response' = Respond(500, ErrorBody("MISTRAL_API_KEY manquant"))
                       /\ calls' = Settle(calls, "ok")
                       /\ pc' = "done"
                   ELSE
                       /\ calls' = Append(Settle(calls, "ok"), Call("completion", "pending"))
                       /\ pc' = "completion"
                       /\ UNCHANGED response
    /\ UNCHANGED <<apiKey, bodyUrl, target, content, summary, aborted, parserVars, clientVars>>

\* await fetch(MISTRAL_API_URL, ...)
Completion ==
    /\ pc = "completion"
    /\ html' = <<>>
    /\ \/ /\ response' = Respond(500, ErrorBody("fetch failed"))
          /\ calls' = Settle(calls, "failed")
          /\ pc' = "done"
       \/ \E status \in Statuses :
            IF status \in 200..299
            THEN /\ pc' = "completionJson"
                 /\ UNCHANGED <<response, calls>>
            ELSE /\ response' = Respond(500, ErrorBody("Erreur Mistral"))
                 /\ calls' = Settle(calls, "failed")
                 /\ pc' = "done"
    /\ UNCHANGED <<apiKey, bodyUrl, target, text, content, summary, timer, aborted,
                   parserVars, clientVars>>

\* await res.json() and the rest of summarizeWithMistral, up to the insert
CompletionJson ==
    /\ pc = "completionJson"
    /\ \/ /\ response' = Respond(500, ErrorBody("Unexpected end of JSON input"))
          /\ calls' = Settle(calls, "failed")
          /\ pc' = "done"
          /\ UNCHANGED <<content, summary>>
       \/ \E c \in Contents :
            LET parsed == extractFirstJsonObject(c.v)
            IN  /\ content' = c
                /\ IF c.t = "undefined" \/ c.v = <<>> THEN
                       /\ response' = Respond(500, ErrorBody("Reponse Mistral vide"))
                       /\ calls' = Settle(calls, "ok")
                       /\ pc' = "done"
                       /\ UNCHANGED summary
                   ELSE IF parsed.kind = "throw" THEN
                       /\ response' = Respond(500, ErrorBody(parsed.message))
                       /\ calls' = Settle(calls, "ok")
                       /\ pc' = "done"
                       /\ UNCHANGED summary
                   ELSE
                       /\ summary' = assemble(parsed.v)
                       /\ calls' = Append(Settle(calls, "ok"), Call("insert", "pending"))
                       /\ pc' = "insert"
                       /\ UNCHANGED response
    /\ UNCHANGED <<apiKey, bodyUrl, target, html, text, timer, aborted, parserVars, clientVars>>

\* the row the store returns for a payload: the payload, an id and a timestamp
insertedRow(id, payload) ==
    [id |-> id, original_url |-> payload.original_url, title |-> payload.title,
     summary |-> payload.summary, created_at |-> "now"]

\* await supabase.from("summaries").insert(payload).select(...).single() and
\* the rest of the handler
Insert ==
    /\ pc = "insert"
    /\ LET payload == [original_url |-> target, title |-> summary.title,
                       summary |-> payloadSummary(summary.summary_points)]
       IN  \/ /\ response' = Respond(500, ErrorBody("insertError"))
              /\ calls' = Settle(calls, "failed")
           \/ \E id \in RowIds :
                LET inserted == insertedRow(id, payload)
                IN  /\ response' = Respond(200,
                            [id |-> inserted.id, url |-> inserted.original_url,
                             title |-> inserted.title,
                             bullets |-> responseBullets(inserted.summary),
                             created_at |-> inserted.created_at])
                    /\ calls' = Settle(calls, "ok")
    /\ pc' = "done"
    /\ UNCHANGED <<apiKey, bodyUrl, target, html, text, content, summary, timer, aborted,
                   parserVars, clientVars>>

NextRoute ==
    \/ Validate
    \/ TimerFires
    \/ FetchPage
    \/ ReadBody
    \/ Completion
    \/ CompletionJson
    \/ Insert

SpecRoute == InitRoute /\ [][NextRoute]_vars

(***************************************************************************)
(* Claims about the route                                                  *)
(***************************************************************************)
\* scrapeReadableText has returned for the document in html
Scraped ==
    \/ pc = "completion"
    \/ pc = "done" /\ response.status = 422
    \/ pc = "done" /\ response.status = 500
                   /\ response.body.error = "MISTRAL_API_KEY manquant"

\* t is empty once trimmed
IsBlank(t) == Trim(t) = <<>>

\* the first of the three candidates that is not blank; the last when all are
FirstNonBlank(doc) ==
    IF ~IsBlank(articleText(doc)) THEN articleText(doc)
    ELSE IF ~IsBlank(mainText(doc)) THEN mainText(doc)
    ELSE paraText(doc)

\* C1: the extractor takes the first candidate (article, main, all paragraphs)
\* that is non-empty once trimmed, and the route answers 422 only when all three
\* are empty once trimmed.  The code takes the first candidate that is non-empty
\* before trimming, so a whitespace-only candidate stops the fallback.
C1_FirstNonBlankCandidateSelected ==
    Scraped =>
        /\ text = clamp(normalizeWhitespace(FirstNonBlank(html)), MaxChars)
        /\ (response.status = 422) <=>
               (/\ IsBlank(articleText(html))
                /\ IsBlank(mainText(html))
                /\ IsBlank(paraText(html)))

\* out is a prefix of full, both run-length encoded
IsPrefix(out, full) ==
    \/ out = <<>>
    \/ /\ Len(out) <= Len(full)
       /\ \A k \in 1..(Len(out) - 1) : out[k] = full[k]
       /\ out[Len(out)].c = full[Len(out)].c
       /\ out[Len(out)].n <= full[Len(out)].n

\* C6 as stated: a raw text longer than 12000 characters gives exactly 12000
\* characters, a prefix of the collapsed and trimmed text; no output is longer.
C6_LongInputGivesExactlyMax ==
    Scraped =>
        /\ RLen(text) <= MaxChars
        /\ RLen(rawText(html)) > MaxChars =>
               /\ RLen(text) = MaxChars
               /\ IsPrefix(text, normalizeWhitespace(rawText(html)))

\* C6 amended: a raw text whose collapsed and trimmed form is longer than 12000
\* characters gives exactly 12000 characters, a prefix of that form; no output
\* is longer than 12000 characters.
C6_LongNormalizedGivesExactlyMax ==
    Scraped =>
        /\ RLen(text) <= MaxChars
        /\ RLen(normalizeWhitespace(rawText(html))) > MaxChars =>
               /\ RLen(text) = MaxChars
               /\ IsPrefix(text, normalizeWhitespace(rawText(html)))

\* C6 witness: whitespace was collapsed and the collapsed text was cut
C6_Witness ==
    /\ Scraped
    /\ RLen(normalizeWhitespace(rawText(html))) > MaxChars
    /\ RLen(normalizeWhitespace(rawText(html))) < RLen(rawText(html))
    /\ RLen(text) = MaxChars
    /\ text # normalizeWhitespace(rawText(html))

\* the object summarizeWithMistral recovered from the completion
Recovered == extractFirstJsonObject(content.v).v

\* C4: the title of a successful response is a non-empty string, the placeholder
\* when the recovered object has no usable title.  The code keeps a title that
\* is the empty string.
C4_TitleNeverEmpty ==
    response.status = 200 =>
        /\ response.body.title # <<>>
        /\ (~IsString(Get(Recovered, TitleKey)) \/ Get(Recovered, TitleKey).v = <<>>)
               => response.body.title = DefaultTitle

Min(a, b) == IF a < b THEN a ELSE b

\* C5: the bullets of a successful response are the first three entries (fewer
\* when there are fewer) of the recovered object's summary_points, in order, each
\* as String() gives it; they are empty when summary_points is no array.
C5_BulletsAreFirstThreePoints ==
    response.status = 200 =>
        LET points == Get(Recovered, PointsKey)
            bullets == response.body.bullets
        IN  /\ Len(bullets) <= 3
            /\ IF IsArray(points)
               THEN /\ Len(bullets) = Min(3, Len(points.v))
                    /\ \A k \in 1..Len(bullets) : bullets[k] = ToJsString(points.v[k])
               ELSE bullets = <<>>

\* C5 witness: more than three points, not all of them strings, cut to three
C5_Witness ==
    /\ response.status = 200
    /\ IsArray(Get(Recovered, PointsKey))
    /\ Len(Get(Recovered, PointsKey).v) > 3
    /\ \E k \in 1..3 : ~IsString(Get(Recovered, PointsKey).v[k])
    /\ Len(response.body.bullets) = 3

\* the request carries no usable address: body.url is missing, empty once
\* trimmed, unparseable, not http(s), or no string at all
UrlRejected ==
    \/ bodyUrl.t # "string"
    \/ TrimChars(bodyUrl.v) = <<>>
    \/ ~ParseURL(TrimChars(bodyUrl.v)).ok
    \/ ~IsHttp(ParseURL(TrimChars(bodyUrl.v)).protocol)

\* the outbound requests in the order the pipeline issues them
Stages == <<"page", "completion", "insert">>

\* the completion arrived and is empty, or no object was recovered from it
CompletionUnusable ==
    \/ content.t = "undefined"
    \/ content.v = <<>>
    \/ extractFirstJsonObject(content.v).kind = "throw"
    \/ extractFirstJsonObject(content.v).v.t # "object"

\* C11: an invocation ends with exactly one response, whose status follows from
\* the first failing stage: a missing, empty, unparseable or non-http(s) url
\* gives 400 before any outbound request; a failed page fetch gives 500; empty
\* extracted text gives 422; a missing credential, a failed completion call, an
\* empty or unrecoverable completion and a failed insert give 500; 200 comes
\* only after the page fetch, the completion call and the insert succeeded in
\* that order.  A url that is no string (1, true, []) makes url.trim() throw and
\* the outer catch answers 500; a completion such as 1 or null, which holds no
\* object, is returned by the direct JSON.parse (C2) and the route answers 200.
C11_StatusFollowsFirstFailingStage ==
    /\ (pc = "done") <=> (response # NoResponse)
    /\ pc = "done" =>
        LET n == Len(calls)
            failed == n > 0 /\ calls[n].result = "failed"
        IN  /\ n <= Len(Stages)
            /\ \A k \in 1..n : calls[k].to = Stages[k]
            /\ \A k \in 1..(n - 1) : calls[k].result = "ok"
            /\ n > 0 => calls[n].result \in {"ok", "failed"}
            /\ UrlRejected <=> response.status = 400
            /\ UrlRejected <=> n = 0
            /\ (n = 1 /\ failed) => response.status = 500
            /\ (n = 1 /\ ~failed /\ text = <<>>) => response.status = 422
            /\ (n = 1 /\ ~failed /\ text # <<>>) => (response.status = 500 /\ ~apiKey)
            /\ n = 2 => (response.status = 500 /\ (failed \/ CompletionUnusable))
            /\ n = 3 => ~CompletionUnusable
            /\ (n = 3 /\ failed) => response.status = 500
            /\ response.status = 200 <=> (n = 3 /\ ~failed)
            /\ response.status = 422 => (n = 1 /\ ~failed /\ text = <<>>)

\* scrapeReadableText is suspended at one of its two awaits
ScrapeInFlight == pc \in {"fetchPage", "readBody"}

\* scrapeReadableText was called and has returned or thrown
ScrapeFinished == calls # <<>> /\ ~ScrapeInFlight

\* C13: when the timeout elapses before the page fetch and the body read are
\* complete, the request is aborted and the run fails; and once the run is over,
\* by return or by throw, the timer has been cleared, so that the abort cannot
\* fire afterwards.
C13_AbortFailsRunAndTimerCleared ==
    /\ aborted =>
          \/ ScrapeInFlight
          \/ /\ pc = "done"
             /\ response.status = 500
             /\ calls = <<Call("page", "failed")>>
    /\ ScrapeFinished => timer = "cleared"
    /\ ScrapeInFlight => timer \in {"armed", "fired"}
    /\ timer = "fired" => aborted

\* C13 witness: the timeout elapsed while the request was in flight, the run
\* failed with the abort's error and the timer is cleared
C13_Witness ==
    /\ aborted
    /\ pc = "done"
    /\ response = Respond(500, ErrorBody("This operation was aborted"))
    /\ timer = "cleared"

(***************************************************************************)
(* The client's history: loadLocalHistory, saveLocalHistory,               *)
(* removeFromHistory, upsertByUrl.  An entry is the JavaScript object it   *)
(* is in the page; of a Summary's fields only id and url are kept, title,  *)
(* bullets and created_at playing no part in any of the four functions.    *)
(***************************************************************************)
IdKey == <<"i", "d">>
UrlKey == <<"u", "r", "l">>

Entry(id, url) == Obj(<< <<IdKey, Num(id)>>, <<UrlKey, Str(url)>> >>)

\* a === b for values that are no objects
StrictEquals(a, b) == a.t = b.t /\ a.t \notin {"array", "object"} /\ a.v = b.v

\* localStorage.getItem throws: the slot cannot be read
Unreadable == [t |-> "throws", v |-> 0]

\* the try block of loadLocalHistory
loadBody(slot) ==
    IF slot.t = "throws" THEN Thrown("SecurityError")
    ELSE IF slot.t = "null" \/ slot.v = <<>> THEN Returned(<<>>)
    ELSE LET parsed == JSONParse(slot.v)
         IN  IF ~parsed.ok THEN Thrown("SyntaxError")
             ELSE IF IsArray(parsed.v) THEN Returned(parsed.v.v)
             ELSE Returned(<<>>)

\* the mutant of loadLocalHistory without its catch
loadWithoutCatch(slot) == loadBody(slot)

loadLocalHistory(slot) ==
    IF loadBody(slot).kind = "throw" THEN Returned(<<>>) ELSE loadBody(slot)

\* what localStorage.setItem(LOCAL_KEY, JSON.stringify(items)) writes
savedText(items) == Str(JSONStringify(Arr(items)))

\* i.id === entry.id && i.url === entry.url
Matches(i, entry) ==
    /\ StrictEquals(Get(i, IdKey), Get(entry, IdKey))
    /\ StrictEquals(Get(i, UrlKey), Get(entry, UrlKey))

\* the mutant of removeFromHistory that matches on the url alone
RECURSIVE removeByUrlOnly(_, _)
removeByUrlOnly(items, entry) ==
    IF items = <<>> THEN <<>>
    ELSE (IF ~StrictEquals(Get(Head(items), UrlKey), Get(entry, UrlKey))
          THEN <<Head(items)>> ELSE <<>>)
         \o removeByUrlOnly(Tail(items), entry)

\* items.filter((i) => !(i.id === entry.id && i.url === entry.url))
RECURSIVE removeFromHistory(_, _)
removeFromHistory(items, entry) ==
    IF items = <<>> THEN <<>>
    ELSE (IF ~Matches(Head(items), entry) THEN <<Head(items)>> ELSE <<>>)
         \o removeFromHistory(Tail(items), entry)

\* items.filter((i) => i.url !== entry.url)
RECURSIVE withoutUrl(_, _)
withoutUrl(items, entry) ==
    IF items = <<>> THEN <<>>
    ELSE (IF ~StrictEquals(Get(Head(items), UrlKey), Get(entry, UrlKey))
          THEN <<Head(items)>> ELSE <<>>)
         \o withoutUrl(Tail(items), entry)

upsertByUrl(items, entry) == <<entry>> \o withoutUrl(items, entry)

(***************************************************************************)
(* A client session: the mount effect, then summaries arriving and         *)
(* entries being deleted.                                                  *)
(***************************************************************************)
Ids == {1, 2}
Urls == {<<"a">>, <<"b">>}
Entries == {Entry(id, url) : id \in Ids, url \in Urls}

MaxStored == 2

StoredLists == UNION {SeqsOfLen(Entries, n) : n \in 0..MaxStored}

\* what the slot may hold when the page opens: nothing, an unreadable slot, text
\* that does not parse, JSON that is no array, arrays of entries, other arrays
SlotValues ==
    { Null, Unreadable, Str(<<>>), Str(<<"a">>), Str(<<"[", "{">>), Str(<<"1">>),
      Str(<<"n", "u", "l", "l">>), Str(<<"\"", "a", "\"">>),
      Str(<<"{", "\"", "i", "d", "\"", ":", "1", "}">>),
      Str(<<"[", "1", "]">>),
      Str(<<" ", "[", "{", "\"", "i", "d", "\"", ":", "1", "}", "]">>) }
    \cup {savedText(items) : items \in StoredLists}

InitClient ==
    /\ storage \in SlotValues
    /\ localHistory = <<>>
    /\ mounted = FALSE
    /\ lastOp = NoOp
    /\ ParserIdle
    /\ RouteIdle

\* useEffect(() => { setLocalHistory(loadLocalHistory()); }, [])
Mount ==
    /\ ~mounted
    /\ mounted' = TRUE
    /\ LET loaded == loadLocalHistory(storage)
       IN  /\ lastOp' = [op |-> IF loaded.kind = "throw" THEN "crash" ELSE "load",
                         prev |-> localHistory, arg |-> storage]
           /\ localHistory' = IF loaded.kind = "throw" THEN localHistory ELSE loaded.v
    /\ UNCHANGED <<storage, parserVars, routeVars>>

\* the mutant of Save that writes the list as it was before the update
SaveStale(next) ==
    \/ storage' = savedText(localHistory)
    \/ UNCHANGED storage

\* saveLocalHistory(next): setItem writes the slot, or throws and is swallowed
Save(next) ==
    \/ storage' = savedText(next)
    \/ UNCHANGED storage

\* the state update at the end of handleSummarize's try block
Upsert ==
    /\ mounted
    /\ lastOp.op # "crash"
    /\ \E created \in Entries :
        LET next == upsertByUrl(localHistory, created)
        IN  /\ Save(next)
            /\ localHistory' = next
            /\ lastOp' = [op |-> "upsert", prev |-> localHistory, arg |-> created]
    /\ UNCHANGED <<mounted, parserVars, routeVars>>

\* the onClick of an entry's delete button
Remove ==
    /\ mounted
    /\ lastOp.op # "crash"
    /\ \E k \in 1..Len(localHistory) :
        LET s == localHistory[k]
            key == Obj(<< <<IdKey, Get(s, IdKey)>>, <<UrlKey, Get(s, UrlKey)>> >>)
            next == removeFromHistory(localHistory, key)
        IN  /\ Save(next)
            /\ localHistory' = next
            /\ lastOp' = [op |-> "remove", prev |-> localHistory, arg |-> key]
    /\ UNCHANGED <<mounted, parserVars, routeVars>>

NextClient ==
    \/ Mount
    \/ Upsert
    \/ Remove

SpecClient == InitClient /\ [][NextClient]_vars

(***************************************************************************)
(* removeFromHistory and upsertByUrl on their own: every short list, every *)
(* entry, every key.                                                       *)
(***************************************************************************)
MaxItems == 3

Lists == UNION {SeqsOfLen(Entries, n) : n \in 0..MaxItems}

\* keys that match an entry, match its url alone, match its id alone, match nothing
Keys == {Entry(id, url) : id \in Ids \cup {3}, url \in Urls \cup {<<"c">>}}

InitHistory ==
    /\ storage = Null
    /\ localHistory \in Lists
    /\ mounted = TRUE
    /\ lastOp = NoOp
    /\ ParserIdle
    /\ RouteIdle

ApplyUpsert ==
    /\ lastOp.op = "none"
    /\ \E entry \in Entries :
        /\ localHistory' = upsertByUrl(localHistory, entry)
        /\ lastOp' = [op |-> "upsert", prev |-> localHistory, arg |-> entry]
    /\ UNCHANGED <<storage, mounted, parserVars, routeVars>>

ApplyRemove ==
    /\ lastOp.op = "none"
    /\ \E key \in Keys :
        /\ localHistory' = removeFromHistory(localHistory, key)
        /\ lastOp' = [op |-> "remove", prev |-> localHistory, arg |-> key]
    /\ UNCHANGED <<storage, mounted, parserVars, routeVars>>

NextHistory ==
    \/ ApplyUpsert
    \/ ApplyRemove

SpecHistory == InitHistory /\ [][NextHistory]_vars

(***************************************************************************)
(* Claims about the history                                                *)
(***************************************************************************)
\* a and b are the same value
SameValue(a, b) == a.t = b.t /\ a.v = b.v

UrlOf(i) == Get(i, UrlKey)
IdOf(i) == Get(i, IdKey)

\* no two entries of items share a url
DistinctUrls(items) ==
    \A i, j \in 1..Len(items) : i # j => ~SameValue(UrlOf(items[i]), UrlOf(items[j]))

\* C7: in every state of a session no two entries of the history share a url.
\* loadLocalHistory returns a stored array as it is, so a slot that holds two
\* entries with one url puts both into the list.
C7_NoTwoEntriesShareUrl == DistinctUrls(localHistory)

\* the positions of prev whose entry is kept
KeptPositions(prev, Dropped(_)) == {k \in 1..Len(prev) : ~Dropped(prev[k])}

\* items is prev without the dropped entries, the others in their order
IsPrevWithout(items, prev, Dropped(_)) ==
    LET kept == KeptPositions(prev, Dropped)
    IN  /\ Len(items) = Cardinality(kept)
        /\ \A m \in 1..Len(items) :
               \E k \in kept :
                   /\ Cardinality({j \in kept : j < k}) = m - 1
                   /\ items[m] = prev[k]

\* C8: after upsertByUrl(list, entry) the entry is at index 0, nothing else has
\* its url, the rest is the list's entries of another url in their order, and
\* each url occurs at most once.  Entries of another url that the list holds
\* twice (C7) are both kept.
C8_UpsertReplacesAndPromotes ==
    lastOp.op = "upsert" =>
        LET HasArgUrl(i) == SameValue(UrlOf(i), UrlOf(lastOp.arg))
        IN  /\ localHistory[1] = lastOp.arg
            /\ \A k \in 2..Len(localHistory) : ~HasArgUrl(localHistory[k])
            /\ IsPrevWithout(Tail(localHistory), lastOp.prev, HasArgUrl)
            /\ DistinctUrls(localHistory)

\* C9: removeFromHistory(list, key) drops exactly the entries whose id and url
\* both equal the key's, keeps the others in their order, and returns the list
\* unchanged when no entry matches both.
C9_RemoveDropsExactMatches ==
    lastOp.op = "remove" =>
        LET IsKey(i) == /\ SameValue(IdOf(i), IdOf(lastOp.arg))
                        /\ SameValue(UrlOf(i), UrlOf(lastOp.arg))
        IN  /\ IsPrevWithout(localHistory, lastOp.prev, IsKey)
            /\ (\A k \in 1..Len(lastOp.prev) : ~IsKey(lastOp.prev[k]))
                   => localHistory = lastOp.prev

\* C9 witness: one entry matched and went, another with the key's url and a
\* different id stayed
C9_Witness ==
    /\ lastOp.op = "remove"
    /\ Len(localHistory) = Len(lastOp.prev) - 1
    /\ \E k \in 1..Len(localHistory) :
        /\ SameValue(UrlOf(localHistory[k]), UrlOf(lastOp.arg))
        /\ ~SameValue(IdOf(localHistory[k]), IdOf(lastOp.arg))

\* the slot holds text that parses to an array
HoldsArray(slot) ==
    /\ slot.t = "string"
    /\ JSONParse(slot.v).ok
    /\ IsArray(JSONParse(slot.v).v)

\* C10: loadLocalHistory never raises; it returns the empty list when the slot
\* is absent, unreadable, does not parse or parses to something that is no
\* array, and otherwise the array the stored text parses to.
C10_LoadNeverRaises ==
    lastOp.op \in {"load", "crash"} =>
        /\ lastOp.op = "load"
        /\ ~HoldsArray(lastOp.arg) => localHistory = <<>>
        /\ localHistory # <<>> => HoldsArray(lastOp.arg)
        /\ HoldsArray(lastOp.arg) => localHistory = JSONParse(lastOp.arg.v).v.v

\* C10 witness: the slot held text that does not parse and the list is empty
C10_Witness ==
    /\ lastOp.op = "load"
    /\ lastOp.arg.t = "string"
    /\ lastOp.arg.v # <<>>
    /\ ~JSONParse(lastOp.arg.v).ok
    /\ localHistory = <<>>

\* a step of the session that updates the history: an upsert or a remove
Mutation ==
    /\ mounted
    /\ lastOp' # lastOp
    /\ lastOp'.op \in {"upsert", "remove"}

\* C12 as stated: after every upsert and every remove the slot holds the
\* serialization of the resulting list.  saveLocalHistory swallows a setItem
\* that throws, and the slot then keeps what it held.
C12_SlotHoldsListAfterMutation ==
    lastOp.op \in {"upsert", "remove"} => storage = savedText(localHistory)

\* C12 amended: every upsert and every remove attempts the write of the resulting
\* list's serialization; the slot holds it afterwards when the write succeeded
\* and is left as it was when the write failed.
C12_SlotSavedOrKept ==
    [][Mutation => (storage' = savedText(localHistory') \/ storage' = storage)]_vars

\* C12 witness: an upsert changed the list and its write replaced a slot that
\* held the serialization of the list before
C12_Witness ==
    /\ lastOp.op = "upsert"
    /\ localHistory # lastOp.prev
    /\ lastOp.prev # <<>>
    /\ storage = savedText(localHistory)

====
